---- MODULE Spec2Model ----
(***************************************************************************)
(* A model of flask_googleauth.py: the OpenID 2.0 / Attribute Exchange     *)
(* relying party (OpenIdMixin) and the Flask plumbing around it            *)
(* (GoogleAuth).                                                           *)
(*                                                                         *)
(* Representation of Python values                                         *)
(*   - a string is a sequence of atoms (non-empty chunks of text); the     *)
(*     empty string is << >>, "a" + "b" is concatenation, truthiness is    *)
(*     Len > 0;                                                            *)
(*   - a query-parameter name is the sequence of its dot-separated         *)
(*     components: "openid.ns.ax" is <<"openid", "ns", "ax">>;             *)
(*   - a dict is a function whose DOMAIN is its key set;                   *)
(*   - a URL is kept in the parsed form urlparse gives it:                 *)
(*     [scheme, netloc, path, query], the path being path.split("/").     *)
(***************************************************************************)
EXTENDS Integers, Sequences, FiniteSets, TLC

VARIABLES
    request,    \* request[c]: the flask request being handled for client c
    session,    \* session[c]: the flask session of client c (a dict)
    g_user,     \* g_user[c]: flask.g.user of the request being handled
    pc,         \* pc[c]: where the handling of c's request stands
    call,       \* call[c]: arguments of the last authenticate_redirect call
    posts,      \* posts[c]: the requests.post calls made for c's request
    reply,      \* reply[c]: what requests.post gave back for c's request
    cbarg,      \* cbarg[c]: what get_authenticated_user's callback was given
    resp,       \* resp[c]: the outcome of the handler (redirect, abort, error)
    endpoint,   \* self._OPENID_ENDPOINT of the installed extension
    trail       \* trail[c]: the exchanges whose redirects led c's browser
                \* to the request being handled

vars == <<request, session, g_user, pc, call, posts, reply, cbarg, resp,
          endpoint, trail>>

----------------------------------------------------------------------------
(* Bounds of the model *)

\* longest ask_for list handed to authenticate_redirect
MaxAttrs == 3
\* longest verification response body, in atoms
MaxContent == 3

----------------------------------------------------------------------------
(* Python helpers *)

Range(s) == {s[i] : i \in DOMAIN s}

\* d.update(e): the entries of e win
Update(d, e) == e @@ d

\* d[k] = v
Put(d, k, v) == (k :> v) @@ d

\* d.get(k, default)
Get(d, k, default) == IF k \in DOMAIN d THEN d[k] ELSE default

EmptyDict == << >>

\* sep.join(parts), parts a sequence of strings
RECURSIVE join(_, _)
join(sep, parts) ==
    IF parts = << >> THEN << >>
    ELSE IF Len(parts) = 1 THEN parts[1]
    ELSE parts[1] \o sep \o join(sep, Tail(parts))

\* needle in hay (substring test on two strings)
contains(needle, hay) ==
    \E i \in 1..(Len(hay) - Len(needle) + 1) :
        SubSeq(hay, i, i + Len(needle) - 1) = needle

\* name.startswith(prefix) for a prefix that ends in a dot: the components
\* of the prefix, then at least one more component
startswith(name, prefix) ==
    /\ Len(name) > Len(prefix)
    /\ SubSeq(name, 1, Len(prefix)) = prefix

\* name[len(prefix):] for such a prefix
after(name, prefix) == SubSeq(name, Len(prefix) + 1, Len(name))

\* all the orders in which a set can be iterated
Orders(S) ==
    {o \in [1..Cardinality(S) -> S] : \A x \in S : \E i \in DOMAIN o : o[i] = x}

----------------------------------------------------------------------------
(* urlparse.urljoin, on parsed URLs *)

uses_relative == {"ftp", "http", "https", "file", ""}
uses_netloc == {"ftp", "http", "https", "file", ""}

URL(scheme, netloc, path, query) ==
    [scheme |-> scheme, netloc |-> netloc, path |-> path, query |-> query]

\* "" as a URL, the way urlparse gives it
NoURL == URL("", "", <<"">>, << >>)

\* the loop of urljoin that removes "seg/.." pairs: the first i in 2..n-1
\* with segments[i] = ".." and segments[i-1] not in ("", "..") is deleted
\* with its predecessor, until there is none
RECURSIVE dotdot(_)
dotdot(segments) ==
    LET n == Len(segments)
        hits == {i \in 2..(n - 1) :
                    /\ segments[i] = ".."
                    /\ segments[i - 1] \notin {"", ".."}}
    IN  IF hits = {} THEN segments
        ELSE LET i == CHOOSE j \in hits : \A k \in hits : j <= k
             IN  dotdot(SubSeq(segments, 1, i - 2) \o SubSeq(segments, i + 1, n))

merge(bpath, path) ==
    LET joined == SubSeq(bpath, 1, Len(bpath) - 1) \o path
        last == IF joined[Len(joined)] = "."
                THEN [joined EXCEPT ![Len(joined)] = ""] ELSE joined
        nodot == SelectSeq(last, LAMBDA s : s # ".")
        segs == dotdot(nodot)
    IN  IF segs = <<"", "..">> THEN <<"", "">>
        ELSE IF Len(segs) >= 2 /\ segs[Len(segs)] = ".."
        THEN SubSeq(segs, 1, Len(segs) - 2) \o <<"">>
        ELSE segs

urljoin(base, url) ==
    IF base = NoURL THEN url
    ELSE IF url = NoURL THEN base
    ELSE LET scheme == IF url.scheme = "" THEN base.scheme ELSE url.scheme
         IN  IF scheme # base.scheme \/ scheme \notin uses_relative THEN url
             ELSE IF scheme \in uses_netloc /\ url.netloc # ""
             THEN URL(scheme, url.netloc, url.path, url.query)
             ELSE LET netloc == IF scheme \in uses_netloc
                                THEN base.netloc ELSE url.netloc
                  IN  IF Len(url.path) >= 2 /\ url.path[1] = ""
                      THEN URL(scheme, netloc, url.path, url.query)
                      ELSE IF url.path = <<"">>
                      THEN URL(scheme, netloc, base.path,
                               IF url.query = << >> THEN base.query
                               ELSE url.query)
                      ELSE URL(scheme, netloc, merge(base.path, url.path),
                               url.query)

\* "/" as a URL
Slash == URL("", "", <<"", "">>, << >>)

----------------------------------------------------------------------------
(* OpenIdMixin._openid_args *)

Str(a) == <<a>>

K_ns == <<"openid", "ns">>
K_claimed_id == <<"openid", "claimed_id">>
K_identity == <<"openid", "identity">>
K_return_to == <<"openid", "return_to">>
K_realm == <<"openid", "realm">>
K_mode == <<"openid", "mode">>
K_op_endpoint == <<"openid", "op_endpoint">>
K_sig == <<"openid", "sig">>
K_ns_ax == <<"openid", "ns", "ax">>
K_ax_mode == <<"openid", "ax", "mode">>
K_ax_required == <<"openid", "ax", "required">>
K_next == <<"next">>

\* "openid.ax.type." + name
K_ax_type(name) == <<"openid", "ax", "type", name>>

OPENID_NS == Str("http://specs.openid.net/auth/2.0")
IDENTIFIER_SELECT == Str("http://specs.openid.net/auth/2.0/identifier_select")
AX_NS == Str("http://openid.net/srv/ax/1.0")

URI_email == Str("http://axschema.org/contact/email")
URI_fullname == Str("http://axschema.org/namePerson")
URI_firstname == Str("http://axschema.org/namePerson/first")
URI_lastname == Str("http://axschema.org/namePerson/last")
URI_username == Str("http://axschema.org/namePerson/friendly")
URI_language == Str("http://axschema.org/pref/language")

known_attrs ==
    [name \in {"email", "language", "username"} |->
        CASE name = "email" -> URI_email
          [] name = "language" -> URI_language
          [] name = "username" -> URI_username]

name_attrs == {"name", "firstname", "fullname", "lastname"}

\* name_types with the literal name in place of fullname
name_types_literal ==
    (K_ax_type("firstname") :> URI_firstname)
    @@ (K_ax_type("name") :> URI_fullname)
    @@ (K_ax_type("lastname") :> URI_lastname)

name_types ==
    (K_ax_type("firstname") :> URI_firstname)
    @@ (K_ax_type("fullname") :> URI_fullname)
    @@ (K_ax_type("lastname") :> URI_lastname)

Return(v) == [ok |-> TRUE, value |-> v]
Raise(exc) == [ok |-> FALSE, exc |-> exc]

\* ax_loop passing over the names known_attrs does not hold
RECURSIVE ax_loop_skip(_, _, _)
ax_loop_skip(args, required, order) ==
    IF order = << >>
    THEN Return(Put(args, K_ax_required, join(Str(","), required)))
    ELSE LET name == Head(order)
         IN  IF name \notin DOMAIN known_attrs
             THEN ax_loop_skip(args, required, Tail(order))
             ELSE ax_loop_skip(Put(args, K_ax_type(name), known_attrs[name]),
                               Append(required, Str(name)), Tail(order))

\* ax_loop without required.append(name)
RECURSIVE ax_loop_no_append(_, _, _)
ax_loop_no_append(args, required, order) ==
    IF order = << >>
    THEN Return(Put(args, K_ax_required, join(Str(","), required)))
    ELSE LET name == Head(order)
         IN  IF name \notin DOMAIN known_attrs THEN Raise("KeyError")
             ELSE ax_loop_no_append(
                      Put(args, K_ax_type(name), known_attrs[name]),
                      required, Tail(order))

\* the loop "for name in ax_attrs": order is the order in which the set is
\* iterated; known_attrs[name] raises KeyError at the first unknown name
RECURSIVE ax_loop(_, _, _)
ax_loop(args, required, order) ==
    IF order = << >>
    THEN Return(Put(args, K_ax_required, join(Str(","), required)))
    ELSE LET name == Head(order)
         IN  IF name \notin DOMAIN known_attrs THEN Raise("KeyError")
             ELSE ax_loop(Put(args, K_ax_type(name), known_attrs[name]),
                          Append(required, Str(name)), Tail(order))

\* the set the loop of _openid_args iterates over
ax_rest(ax_attrs) ==
    IF "name" \in Range(ax_attrs) THEN Range(ax_attrs) \ name_attrs
    ELSE Range(ax_attrs)

\* wants_ax taking any list, the empty one too, as a request for attributes
wants_ax_always(ax_attrs) == TRUE

\* line 101: "if ax_attrs:"
wants_ax(ax_attrs) == ax_attrs # << >>

\* realm_of without the join
realm_of_same(url) == url

\* line 98: urlparse.urljoin(url, "/")
realm_of(url) == urljoin(url, Slash)

_openid_args(request_url, callback_uri, ax_attrs, order) ==
    LET url == urljoin(request_url, callback_uri)
        args == (K_ns :> OPENID_NS)
                @@ (K_claimed_id :> IDENTIFIER_SELECT)
                @@ (K_identity :> IDENTIFIER_SELECT)
                @@ (K_return_to :> url)
                @@ (K_realm :> realm_of(url))
                @@ (K_mode :> Str("checkid_setup"))
    IN  IF ~wants_ax(ax_attrs) THEN Return(args)
        ELSE LET ax == Update(args, (K_ns_ax :> AX_NS)
                                    @@ (K_ax_mode :> Str("fetch_request")))
             IN  IF "name" \in Range(ax_attrs)
                 THEN ax_loop(Update(ax, name_types),
                              <<Str("firstname"), Str("fullname"),
                                Str("lastname")>>,
                              order)
                 ELSE ax_loop(ax, << >>, order)

----------------------------------------------------------------------------
(* OpenIdMixin._on_authentication_verified *)

requests_codes_ok == 200

IS_VALID_TRUE == <<"is_valid:", "true">>

\* Python's None, and a value that is not None
None == [kind |-> "None", value |-> << >>]
Some(v) == [kind |-> "value", value |-> v]

\* "for name in request.args: if name.startswith('openid.ns.') and
\* request.args.get(name) == AX: ax_ns = name[10:]; break": the dict is
\* iterated in an arbitrary order, so any matching name can be the first.
\* No alias (None) is << >>; the alias of the name "openid.ns." is <<"">>.
\* get_ax_arg taking the type key of any alias for the one of the AX alias
get_ax_arg_any_alias(args, ax_ns, uri) ==
    IF ax_ns = << >> \/ ax_ns = <<"">> THEN {<< >>}
    ELSE LET hits == {name \in DOMAIN args :
                         /\ args[name] = uri
                         /\ Len(name) > 3
                         /\ name[1] = "openid" /\ name[3] = "type"}
         IN  IF hits = {} THEN {<< >>}
             ELSE {Get(args,
                       <<"openid", name[2], "value">> \o SubSeq(name, 4, Len(name)),
                       << >>) : name \in hits}

\* the alias scan taking any declared namespace for the AX namespace
ax_ns_choices_any_ns(args) ==
    LET hits == {name \in DOMAIN args :
                    startswith(name, K_ns) /\ Len(name) > Len(K_ns)}
    IN  IF hits = {} THEN {<< >>}
        ELSE {SubSeq(name, Len(K_ns) + 1, Len(name)) : name \in hits}

\* the alias scan taking the alias of the request for the one of the answer
ax_ns_choices_request_alias(args) == {<<"ax">>}

ax_ns_choices(args) ==
    LET hits == {name \in DOMAIN args :
                    startswith(name, K_ns) /\ args[name] = AX_NS}
    IN  IF hits = {} THEN {<< >>}
        ELSE {after(name, K_ns) : name \in hits}

\* the values get_ax_arg(uri) can return, the arguments being iterated in
\* an arbitrary order
get_ax_arg_choices(args, ax_ns, uri) ==
    IF ax_ns = << >> \/ ax_ns = <<"">> THEN {<< >>}
    ELSE LET prefix == <<"openid">> \o ax_ns \o <<"type">>
             hits == {name \in DOMAIN args :
                         args[name] = uri /\ startswith(name, prefix)}
         IN  IF hits = {} THEN {<< >>}
             ELSE {Get(args,
                       <<"openid">> \o ax_ns \o <<"value">>
                           \o after(name, prefix),
                       << >>) : name \in hits}

\* str.lower(), atom by atom
lower_atom(a) ==
    CASE a = "EN" -> "en"
      [] a = "En-US" -> "en-us"
      [] OTHER -> a

lower(s) == [i \in DOMAIN s |-> lower_atom(s[i])]

\* email.split("@")[0]
split_at_0(s) ==
    LET ats == {i \in DOMAIN s : s[i] = "@"}
    IN  IF ats = {} THEN s
        ELSE SubSeq(s, 1, (CHOOSE i \in ats : \A j \in ats : i <= j) - 1)

\* build_user taking the name from the email before the first and last names
build_user_2(email, name, first_name, last_name, username, locale, identity) ==
    LET name_parts == (IF first_name # << >> THEN <<first_name>> ELSE << >>)
                      \o (IF last_name # << >> THEN <<last_name>> ELSE << >>)
        u1 == IF first_name # << >>
              THEN Put(EmptyDict, "first_name", first_name) ELSE EmptyDict
        u2 == IF last_name # << >> THEN Put(u1, "last_name", last_name) ELSE u1
        u3 == IF name # << >> THEN Put(u2, "name", name)
              ELSE IF email # << >> THEN Put(u2, "name", split_at_0(email))
              ELSE IF name_parts # << >>
              THEN Put(u2, "name", join(Str(" "), name_parts))
              ELSE u2
        u4 == IF email # << >> THEN Put(u3, "email", email) ELSE u3
        u5 == IF locale # << >> THEN Put(u4, "locale", locale) ELSE u4
        u6 == IF username # << >> THEN Put(u5, "username", username) ELSE u5
    IN  IF identity # << >> THEN Put(u6, "identity", identity) ELSE u6

\* lines 162-183: the ObjectDict built from the extracted values
build_user(email, name, first_name, last_name, username, locale, identity) ==
    LET name_parts == (IF first_name # << >> THEN <<first_name>> ELSE << >>)
                      \o (IF last_name # << >> THEN <<last_name>> ELSE << >>)
        u1 == IF first_name # << >>
              THEN Put(EmptyDict, "first_name", first_name) ELSE EmptyDict
        u2 == IF last_name # << >> THEN Put(u1, "last_name", last_name) ELSE u1
        u3 == IF name # << >> THEN Put(u2, "name", name)
              ELSE IF name_parts # << >>
              THEN Put(u2, "name", join(Str(" "), name_parts))
              ELSE IF email # << >> THEN Put(u2, "name", split_at_0(email))
              ELSE u2
        u4 == IF email # << >> THEN Put(u3, "email", email) ELSE u3
        u5 == IF locale # << >> THEN Put(u4, "locale", locale) ELSE u4
        u6 == IF username # << >> THEN Put(u5, "username", username) ELSE u5
    IN  IF identity # << >> THEN Put(u6, "identity", identity) ELSE u6

\* is_verified without the test of the status
is_verified_any_status(response) ==
    contains(IS_VALID_TRUE, response.content)

\* line 128-129: the response is taken as a confirmation
is_verified(response) ==
    /\ response.status = requests_codes_ok
    /\ contains(IS_VALID_TRUE, response.content)

\* the values _on_authentication_verified can hand to its callback
callback_args(args, response) ==
    IF ~is_verified(response) THEN {None}
    ELSE {Some(build_user(email, name, first_name, last_name, username,
                          lower(language), Get(args, K_claimed_id, << >>))) :
            <<email, name, first_name, last_name, username, language>> \in
                UNION {get_ax_arg_choices(args, ax_ns, URI_email)
                       \X get_ax_arg_choices(args, ax_ns, URI_fullname)
                       \X get_ax_arg_choices(args, ax_ns, URI_firstname)
                       \X get_ax_arg_choices(args, ax_ns, URI_lastname)
                       \X get_ax_arg_choices(args, ax_ns, URI_username)
                       \X get_ax_arg_choices(args, ax_ns, URI_language) :
                       ax_ns \in ax_ns_choices(args)}}

----------------------------------------------------------------------------
(* The Flask application: state *)

Clients == {"c1", "c2"}

\* GoogleAuth._OPENID_ENDPOINT
_OPENID_ENDPOINT == Str("https://www.google.com/accounts/o8/ud")

\* GoogleFederated(app, domain)._OPENID_ENDPOINT
GoogleFederated(domain) ==
    <<"https://www.google.com/a/", domain, "/o8/ud", "?", "be=o8">>

\* the extensions an application can install
Endpoints == {_OPENID_ENDPOINT, GoogleFederated("mokote.com")}

\* the default ask_for of authenticate_redirect
default_ask_for == <<"name", "email", "language", "username">>

Request(view, url, referrer) ==
    [endpoint |-> view, url |-> url, referrer |-> referrer]

NoRequest == Request("none", NoURL, << >>)

\* request.args
request_args(c) == request[c].url.query

NoCall == [called |-> FALSE, callback_uri |-> NoURL, ask_for |-> << >>]
NoReply == [kind |-> "none", status |-> 0, content |-> << >>]
Uncalled == [kind |-> "uncalled", value |-> << >>]
NoResp == [kind |-> "none", code |-> 0, location |-> << >>, args |-> EmptyDict]

\* flask.redirect(location + urlencode(args)), flask.abort(code), and an
\* exception that leaves the view
Redirect(location, args) ==
    [kind |-> "redirect", code |-> 302, location |-> location, args |-> args]
Abort(code) ==
    [kind |-> "abort", code |-> code, location |-> << >>, args |-> EmptyDict]
Error(exc) ==
    [kind |-> "error", code |-> 500, location |-> Str(exc), args |-> EmptyDict]

Init ==
    /\ request = [c \in Clients |-> NoRequest]
    /\ session = [c \in Clients |-> EmptyDict]
    /\ g_user = [c \in Clients |-> None]
    /\ pc = [c \in Clients |-> "idle"]
    /\ call = [c \in Clients |-> NoCall]
    /\ posts = [c \in Clients |-> << >>]
    /\ reply = [c \in Clients |-> NoReply]
    /\ cbarg = [c \in Clients |-> Uncalled]
    /\ resp = [c \in Clients |-> NoResp]
    /\ endpoint \in Endpoints
    /\ trail = [c \in Clients |-> << >>]

----------------------------------------------------------------------------
(* The Flask application: handlers *)

\* A request of client c arrives and GoogleAuth._before_request runs
_before_request(c, req) ==
    /\ pc[c] \in {"idle", "done"}
    /\ request' = [request EXCEPT ![c] = req]
    /\ g_user' = [g_user EXCEPT ![c] =
                     IF "openid" \in DOMAIN session[c]
                     THEN Some(session[c]["openid"]) ELSE None]
    /\ pc' = [pc EXCEPT ![c] = "dispatch"]
    /\ call' = [call EXCEPT ![c] = NoCall]
    /\ posts' = [posts EXCEPT ![c] = << >>]
    /\ reply' = [reply EXCEPT ![c] = NoReply]
    /\ cbarg' = [cbarg EXCEPT ![c] = Uncalled]
    /\ resp' = [resp EXCEPT ![c] = NoResp]
    /\ trail' = [trail EXCEPT ![c] = << >>]
    /\ UNCHANGED <<session, endpoint>>

\* OpenIdMixin.authenticate_redirect(callback_uri, ask_for); callback_uri is
\* NoURL for None
authenticate_redirect(c, callback_uri, ask_for) ==
    \E order \in Orders(ax_rest(ask_for)) :
        LET uri == IF callback_uri = NoURL THEN request[c].url
                   ELSE callback_uri
            args == _openid_args(request[c].url, uri, ask_for, order)
        IN  /\ call' = [call EXCEPT ![c] =
                           [called |-> TRUE, callback_uri |-> callback_uri,
                            ask_for |-> ask_for]]
            /\ resp' = [resp EXCEPT ![c] =
                           IF args.ok
                           THEN Redirect(
                                    endpoint
                                    \o (IF contains(Str("?"), endpoint)
                                        THEN Str("&") ELSE Str("?")),
                                    args.value)
                           ELSE Error(args.exc)]
            /\ pc' = [pc EXCEPT ![c] = "done"]
            /\ UNCHANGED <<request, session, g_user, posts, reply, cbarg,
                           endpoint, trail>>

\* get_authenticated_user posting to the configured endpoint whatever the
\* callback says
get_authenticated_user_pinned(c) ==
    LET args == Put(request_args(c), K_mode, Str("check_authentication"))
    IN  /\ posts' = [posts EXCEPT ![c] =
                        Append(@, [url |-> endpoint, data |-> args])]
        /\ pc' = [pc EXCEPT ![c] = "posting"]
        /\ UNCHANGED <<request, session, g_user, call, reply, cbarg, resp,
                       endpoint, trail>>

\* OpenIdMixin.get_authenticated_user up to the call of requests.post
get_authenticated_user(c) ==
    LET args == Put(request_args(c), K_mode, Str("check_authentication"))
        url == Get(request_args(c), K_op_endpoint, endpoint)
    IN  /\ posts' = [posts EXCEPT ![c] =
                        Append(@, [url |-> url, data |-> args])]
        /\ pc' = [pc EXCEPT ![c] = "posting"]
        /\ UNCHANGED <<request, session, g_user, call, reply, cbarg, resp,
                       endpoint, trail>>

\* GoogleAuth._login
_login(c) ==
    /\ pc[c] = "dispatch"
    /\ request[c].endpoint = "login"
    /\ IF Get(request_args(c), K_mode, << >>) # << >>
       THEN get_authenticated_user(c)
       ELSE authenticate_redirect(c, NoURL, default_ask_for)

\* _on_auth keeping the profile in one place for all clients
_on_auth_shared(c, user) ==
    IF user = None \/ user.value = EmptyDict
    THEN /\ resp' = [resp EXCEPT ![c] = Abort(403)]
         /\ UNCHANGED session
    ELSE /\ session' = [d \in Clients |-> Put(session[d], "openid", user.value)]
         /\ resp' = [resp EXCEPT ![c] =
                        LET next == Get(request_args(c), K_next, << >>)
                        IN  Redirect(IF next # << >> THEN next
                                     ELSE IF request[c].referrer # << >>
                                     THEN request[c].referrer
                                     ELSE Str("/"),
                                     EmptyDict)]

\* _on_auth storing whatever it is given
_on_auth_no_abort(c, user) ==
    /\ session' = [session EXCEPT ![c] = Put(@, "openid", user.value)]
    /\ resp' = [resp EXCEPT ![c] =
                   LET next == Get(request_args(c), K_next, << >>)
                   IN  Redirect(IF next # << >> THEN next
                                ELSE IF request[c].referrer # << >>
                                THEN request[c].referrer
                                ELSE Str("/"),
                                EmptyDict)]

\* GoogleAuth._on_auth(user), the callback _login gives get_authenticated_user
_on_auth(c, user) ==
    IF user = None \/ user.value = EmptyDict
    THEN /\ resp' = [resp EXCEPT ![c] = Abort(403)]
         /\ UNCHANGED session
    ELSE /\ session' = [session EXCEPT ![c] = Put(@, "openid", user.value)]
         /\ resp' = [resp EXCEPT ![c] =
                        LET next == Get(request_args(c), K_next, << >>)
                        IN  Redirect(IF next # << >> THEN next
                                     ELSE IF request[c].referrer # << >>
                                     THEN request[c].referrer
                                     ELSE Str("/"),
                                     EmptyDict)]

\* OpenIdMixin._on_authentication_verified(callback, response), with the
\* callback _login gives it: requests.post returned response
_on_authentication_verified(c, response) ==
    /\ pc[c] = "posting"
    /\ \E user \in callback_args(request_args(c), response) :
          /\ cbarg' = [cbarg EXCEPT ![c] = user]
          /\ _on_auth(c, user)
    /\ reply' = [reply EXCEPT ![c] =
                    [kind |-> "response", status |-> response.status,
                     content |-> response.content]]
    /\ pc' = [pc EXCEPT ![c] = "done"]
    /\ UNCHANGED <<request, g_user, call, posts, endpoint, trail>>

\* requests.post raises (line 88): the exception leaves get_authenticated_user
\* and the view, and the callback is never called
requests_post_raises(c, exc) ==
    /\ pc[c] = "posting"
    /\ reply' = [reply EXCEPT ![c] =
                    [kind |-> "raised", status |-> 0, content |-> Str(exc)]]
    /\ resp' = [resp EXCEPT ![c] = Error(exc)]
    /\ pc' = [pc EXCEPT ![c] = "done"]
    /\ UNCHANGED <<request, session, g_user, call, posts, cbarg, endpoint,
                   trail>>

\* _logout leaving the session as it is
_logout_keep(c) ==
    /\ pc[c] = "dispatch"
    /\ request[c].endpoint = "logout"
    /\ resp' = [resp EXCEPT ![c] =
                   LET next == Get(request_args(c), K_next, << >>)
                   IN  Redirect(IF next # << >> THEN next ELSE Str("/"),
                                EmptyDict)]
    /\ pc' = [pc EXCEPT ![c] = "done"]
    /\ UNCHANGED <<request, session, g_user, call, posts, reply, cbarg,
                   endpoint, trail>>

\* GoogleAuth._logout
_logout(c) ==
    /\ pc[c] = "dispatch"
    /\ request[c].endpoint = "logout"
    /\ session' = [session EXCEPT ![c] =
                      [k \in DOMAIN @ \ {"openid"} |-> @[k]]]
    /\ resp' = [resp EXCEPT ![c] =
                   LET next == Get(request_args(c), K_next, << >>)
                   IN  Redirect(IF next # << >> THEN next ELSE Str("/"),
                                EmptyDict)]
    /\ pc' = [pc EXCEPT ![c] = "done"]
    /\ UNCHANGED <<request, g_user, call, posts, reply, cbarg, endpoint, trail>>

\* GoogleAuth._check_auth
_check_auth(c) == "openid" \in DOMAIN session[c]

\* a view wrapped by GoogleAuth.required; the view itself answers 200
required(c) ==
    /\ pc[c] = "dispatch"
    /\ request[c].endpoint = "protected"
    /\ resp' = [resp EXCEPT ![c] =
                   IF ~_check_auth(c)
                   THEN Redirect(Str("/login/"), (K_next :> request[c].url))
                   ELSE [kind |-> "view", code |-> 200, location |-> << >>,
                         args |-> EmptyDict]]
    /\ pc' = [pc EXCEPT ![c] = "done"]
    /\ UNCHANGED <<request, session, g_user, call, posts, reply, cbarg,
                   endpoint, trail>>

\* a view of the application that calls authenticate_redirect itself
app_view(c, callback_uri, ask_for) ==
    /\ pc[c] = "dispatch"
    /\ request[c].endpoint = "app"
    /\ authenticate_redirect(c, callback_uri, ask_for)

----------------------------------------------------------------------------
(* The environment: the endpoint requests.post talks to *)

\* the signature of an assertion the provider issued, and any other one
ProviderSig == Str("sig-of-provider")
ForgedSig == Str("sig-forged")

\* an endpoint that does not belong to the provider
EVIL_ENDPOINT == Str("https://evil.example/verify")

Response(status, content) == [status |-> status, content |-> content]

Seqs(S, n) == UNION {[1..k -> S] : k \in 0..n}

ContentAtoms == {"is_valid:", "true", "<html>"}

\* every response some endpoint can give
AnyResponses ==
    {Response(st, co) : st \in {requests_codes_ok, 204, 500},
                        co \in Seqs(ContentAtoms, MaxContent)}

\* the provider's answers to a check_authentication request: it confirms
\* only an assertion that it issued itself
ProviderResponses(data) ==
    {Response(200, <<"is_valid:", "false", "\n">>),
     Response(500, <<"<html>">>)}
    \cup (IF Get(data, K_sig, << >>) = ProviderSig
          THEN {Response(200, <<"is_valid:", "true", "\n">>)}
          ELSE {})

\* what requests.post(url, data) can return
Responses(post) ==
    IF post.url \in Endpoints THEN ProviderResponses(post.data)
    ELSE AnyResponses

\* the exceptions requests.post(url, data) can raise
Raises(post) ==
    IF post.url = << >> THEN {"MissingSchema"} ELSE {"ConnectionError"}

\* requests.post returns, and the handler goes on
requests_post_returns(c) ==
    /\ pc[c] = "posting"
    /\ posts[c][Len(posts[c])].url # << >>
    /\ \E response \in Responses(posts[c][Len(posts[c])]) :
          _on_authentication_verified(c, response)

requests_post_fails(c) ==
    /\ pc[c] = "posting"
    /\ \E exc \in Raises(posts[c][Len(posts[c])]) :
          requests_post_raises(c, exc)

----------------------------------------------------------------------------
(* The requests of the model *)

\* a dict with the key k and one of the values, or without the key
Opt(k, values) == {EmptyDict} \cup {(k :> v) : v \in values}

AppURL(path, query) == URL("http", "app.example", path, query)

\* the parameters of an AX attribute in a callback: its type under
\* openid.<alias>.type.<suffix> and its value under
\* openid.<alias>.value.<suffix>; no value key for the value "novalue"
AxSlot(alias, suffix, uri, values) ==
    {EmptyDict} \cup
    {IF v = <<"novalue">> THEN (<<"openid", alias, "type", suffix>> :> uri)
     ELSE (<<"openid", alias, "type", suffix>> :> uri)
          @@ (<<"openid", alias, "value", suffix>> :> v) : v \in values}

EMAIL == <<"u", "@", "x.com">>
CLAIMED_ID == Str("https://www.google.com/accounts/o8/id?id=A1")

\* the query parameters of a callback of the web model: the endpoint the
\* assertion names, its signature, the identity and attributes asserted
WebCallbackArgs ==
    {(K_mode :> Str("id_res")) @@ e @@ s @@ a :
        e \in Opt(K_op_endpoint, {_OPENID_ENDPOINT, EVIL_ENDPOINT}),
        s \in {(K_sig :> ProviderSig), (K_sig :> ForgedSig)},
        a \in {EmptyDict,
               (K_claimed_id :> CLAIMED_ID),
               (K_claimed_id :> CLAIMED_ID)
               @@ (<<"openid", "ns", "ext1">> :> AX_NS)
               @@ (<<"openid", "ext1", "type", "a1">> :> URI_email)
               @@ (<<"openid", "ext1", "value", "a1">> :> EMAIL)}}

\* the query parameters of a request that starts a login
WebStartArgs ==
    {m @@ n : m \in Opt(K_mode, {<< >>}), n \in Opt(K_next, {Str("/secret")})}

WebRequests ==
    {Request("login", AppURL(<<"", "login", "">>, q), << >>) :
        q \in WebStartArgs}
    \cup {Request("login", AppURL(<<"", "login", "">>, q @@ nr.next), nr.ref) :
            q \in WebCallbackArgs,
            nr \in {[next |-> (K_next :> Str("/secret")), ref |-> << >>],
                    [next |-> EmptyDict, ref |-> Str("/from")],
                    [next |-> EmptyDict, ref |-> << >>]}}
    \cup {Request("logout", AppURL(<<"", "logout", "">>, q), << >>) :
            q \in Opt(K_next, {Str("/bye")})}
    \cup {Request("protected", AppURL(<<"", "secret">>, EmptyDict), << >>)}

----------------------------------------------------------------------------
(* The web application: requests arrive one after the other *)

WebClients == {"c1"}

Next ==
    \E c \in WebClients :
        \/ \E req \in WebRequests : _before_request(c, req)
        \/ _login(c)
        \/ requests_post_returns(c)
        \/ requests_post_fails(c)
        \/ _logout(c)
        \/ required(c)

Spec == Init /\ [][Next]_vars

----------------------------------------------------------------------------
(* Properties of the verification of a callback *)

\* the request being handled is a callback of the provider
IsCallback(c) ==
    /\ request[c].endpoint = "login"
    /\ Get(request_args(c), K_mode, << >>) # << >>

\* the last requests.post of the request
LastPost(c) == posts[c][Len(posts[c])]

\* the response status indicates success
StatusIsSuccess(status) == status \in 200..299

\* the body holds the token is_valid:true
HasIsValidTrue(content) ==
    \E i \in 1..(Len(content) - 1) :
        content[i] = "is_valid:" /\ content[i + 1] = "true"

\* the callback was handed a non-empty profile
PositiveResult(c) == cbarg[c].kind = "value" /\ cbarg[c].value # EmptyDict

\* C1: a positive assertion cannot be forged: the callback is handed a
\* non-empty profile, and session["openid"] is set by the callback, only if
\* the confirmation came from the provider, whatever the callback's query
\* parameters (openid.op_endpoint included) say.
C1_PositiveOnlyIfProviderConfirmed ==
    \A c \in Clients :
        PositiveResult(c) =>
            /\ LastPost(c).url \in Endpoints
            /\ Get(LastPost(c).data, K_sig, << >>) = ProviderSig

\* C2: whenever the status of the verification response is not success or
\* its body lacks is_valid:true, the callback is given None and nothing is
\* raised; a profile is built only when the status is success and the body
\* holds is_valid:true.
C2_InvalidResponseGivesNone ==
    \A c \in Clients :
        reply[c].kind = "response" =>
            LET valid == /\ StatusIsSuccess(reply[c].status)
                         /\ HasIsValidTrue(reply[c].content)
            IN  /\ ~valid => (cbarg[c] = None /\ resp[c].kind # "error")
                /\ cbarg[c].kind = "value" => valid

C2_Witness ==
    \E c \in Clients :
        /\ reply[c].kind = "response"
        /\ reply[c].status = 500
        /\ HasIsValidTrue(reply[c].content)
        /\ cbarg[c] = None
        /\ resp[c].kind = "abort"

\* the body of a direct verification response is in key-value form: lines
\* of key:value
KeyValueForm(content) ==
    /\ content # << >>
    /\ \A i \in DOMAIN content :
          content[i] \in {"is_valid:", "true", "false", "\n"}
    /\ \A i \in DOMAIN content :
          content[i] = "is_valid:" =>
              i < Len(content) /\ content[i + 1] \in {"true", "false"}

\* the verification call could not complete: requests.post raised, or what
\* came back cannot be parsed
TransportFailed(c) ==
    \/ reply[c].kind = "raised"
    \/ reply[c].kind = "response" /\ ~KeyValueForm(reply[c].content)

\* C3: when the verification call cannot complete (network failure,
\* timeout, non-parseable response) the caller gets an error, never the
\* negative result callback(None) of a rejected assertion.
C3_TransportErrorIsNotRejection ==
    \A c \in Clients :
        TransportFailed(c) => (cbarg[c] # None /\ resp[c].kind = "error")

\* C4: for a callback exactly one verification request is made; it carries
\* every callback parameter unchanged except openid.mode, which is
\* check_authentication; it goes to the callback's openid.op_endpoint when
\* there is one and to the configured endpoint otherwise; the callback's
\* own parameters are not modified.
C4_VerificationRequest ==
    /\ [](\A c \in Clients :
            (IsCallback(c) /\ pc[c] \in {"posting", "done"}) =>
                /\ Len(posts[c]) = 1
                /\ LET args == request_args(c)
                       post == posts[c][1]
                   IN  /\ DOMAIN post.data = DOMAIN args \cup {K_mode}
                       /\ \A k \in DOMAIN args \ {K_mode} :
                             post.data[k] = args[k]
                       /\ post.data[K_mode] = Str("check_authentication")
                       /\ post.url = IF K_op_endpoint \in DOMAIN args
                                     THEN args[K_op_endpoint] ELSE endpoint)
    /\ [][\A c \in Clients :
            (IsCallback(c) /\ pc[c] \in {"dispatch", "posting"}) =>
                request'[c] = request[c]]_vars

C4_Witness ==
    \E c \in Clients :
        /\ IsCallback(c)
        /\ pc[c] = "done"
        /\ Len(posts[c]) = 1
        /\ posts[c][1].url = EVIL_ENDPOINT
        /\ request_args(c)[K_mode] = Str("id_res")
        /\ posts[c][1].data[K_mode] = Str("check_authentication")

----------------------------------------------------------------------------
(* The request builder: a view calls authenticate_redirect *)

AttrNames == {"name", "email", "language", "username", "firstname", "bogus"}

AskFors == Seqs(AttrNames, MaxAttrs)

\* callback URIs: None, relative ones, absolute ones on the host of the
\* application and on another host
CallbackURIs ==
    {NoURL,
     URL("", "", <<"cb">>, EmptyDict),
     URL("", "", <<"..", "cb">>, (<<"x">> :> Str("1"))),
     URL("", "", <<"", "auth", "done">>, EmptyDict),
     URL("", "", <<"">>, (<<"x">> :> Str("1"))),
     URL("http", "app.example", <<"", "cb">>, EmptyDict),
     URL("https", "app.example", <<"", "cb">>, EmptyDict),
     URL("https", "other.example", <<"", "cb", "">>, EmptyDict),
     URL("http", "other.example", <<"">>, EmptyDict),
     URL("", "other.example", <<"", "cb">>, EmptyDict)}

AppRequests ==
    {Request("app", AppURL(<<"", "a", "b">>, EmptyDict), << >>),
     Request("app", URL("https", "app.example", <<"", "">>,
                        (K_next :> Str("/secret"))), << >>)}

\* the application is handling a request of its own view
InitBuild ==
    /\ request \in {[c \in Clients |-> IF c \in WebClients THEN req
                                       ELSE NoRequest] : req \in AppRequests}
    /\ session = [c \in Clients |-> EmptyDict]
    /\ g_user = [c \in Clients |-> None]
    /\ pc = [c \in Clients |-> IF c \in WebClients THEN "dispatch" ELSE "idle"]
    /\ call = [c \in Clients |-> NoCall]
    /\ posts = [c \in Clients |-> << >>]
    /\ reply = [c \in Clients |-> NoReply]
    /\ cbarg = [c \in Clients |-> Uncalled]
    /\ resp = [c \in Clients |-> NoResp]
    /\ endpoint \in Endpoints
    /\ trail = [c \in Clients |-> << >>]

NextBuild ==
    \E c \in WebClients :
        \E callback_uri \in CallbackURIs, ask_for \in AskFors :
            app_view(c, callback_uri, ask_for)

SpecBuild == InitBuild /\ [][NextBuild]_vars

----------------------------------------------------------------------------
(* Properties of the request builder *)

\* authenticate_redirect built a request for client c
Built(c) == call[c].called /\ resp[c].kind = "redirect"

\* the attribute names the interface of authenticate_redirect knows
RequestableAttrs == {"name", "email", "language", "username"}

\* the names of a comma-joined list
Listed(joined) ==
    [i \in 1..((Len(joined) + 1) \div 2) |-> joined[2 * i - 1]]

CommaJoined(joined) ==
    /\ joined # << >> => Len(joined) % 2 = 1
    /\ \A i \in DOMAIN joined : (i % 2 = 0) <=> (joined[i] = ",")

\* the suffixes of the openid.ax.type.<name> keys
TypeSuffixes(args) ==
    {k[4] : k \in {n \in DOMAIN args :
                      Len(n) = 4 /\ SubSeq(n, 1, 3) = <<"openid", "ax", "type">>}}

\* the AX fields of a request
AxKeys(args) ==
    {k \in DOMAIN args :
        k = K_ns_ax \/ (Len(k) >= 3 /\ SubSeq(k, 1, 2) = <<"openid", "ax">>)}

C6_NameIsExpanded ==
    \A c \in Clients :
        (Built(c) /\ "name" \in Range(call[c].ask_for)) =>
            LET args == resp[c].args
            IN  /\ K_ax_type("name") \notin DOMAIN args
                /\ \A n \in {"firstname", "fullname", "lastname"} :
                      /\ K_ax_type(n) \in DOMAIN args
                      /\ n \in Range(Listed(args[K_ax_required]))

C6_Witness ==
    \E c \in Clients :
        /\ Built(c)
        /\ call[c].ask_for = <<"email", "name">>
        /\ K_ax_type("fullname") \in DOMAIN resp[c].args

\* C7: every request built has openid.ns, claimed_id, identity, return_to,
\* realm and mode = checkid_setup; it has AX fields (openid.ns.ax,
\* openid.ax.mode, openid.ax.required, openid.ax.type.*) exactly when at
\* least one attribute was requested.
C7_MandatoryFieldsAndAx ==
    \A c \in Clients :
        Built(c) =>
            LET args == resp[c].args
            IN  /\ {K_ns, K_claimed_id, K_identity, K_return_to, K_realm,
                    K_mode} \subseteq DOMAIN args
                /\ args[K_mode] = Str("checkid_setup")
                /\ IF call[c].ask_for = << >> THEN AxKeys(args) = {}
                   ELSE /\ {K_ns_ax, K_ax_mode, K_ax_required}
                               \subseteq DOMAIN args
                        /\ TypeSuffixes(args) # {}

C7_Witness ==
    \E c \in Clients :
        /\ Built(c)
        /\ call[c].ask_for = << >>
        /\ AxKeys(resp[c].args) = {}

\* the type-URI of each attribute of the AX schema
AxSchema(n) ==
    CASE n = "firstname" -> Str("http://axschema.org/namePerson/first")
      [] n = "fullname" -> Str("http://axschema.org/namePerson")
      [] n = "lastname" -> Str("http://axschema.org/namePerson/last")
      [] n = "email" -> Str("http://axschema.org/contact/email")
      [] n = "language" -> Str("http://axschema.org/pref/language")
      [] n = "username" -> Str("http://axschema.org/namePerson/friendly")
      [] OTHER -> << >>

\* C8: in a request built for a non-empty attribute set, the names listed
\* in openid.ax.required are the suffixes of its openid.ax.type.<name>
\* keys, each listed once (also when the list repeats a name or names both
\* name and one of its expansions), each type key carries the type-URI of
\* its attribute, and firstname, fullname, lastname come first.
C8_RequiredMatchesTypes ==
    \A c \in Clients :
        (Built(c) /\ call[c].ask_for # << >>) =>
            LET args == resp[c].args
                names == Listed(args[K_ax_required])
            IN  /\ CommaJoined(args[K_ax_required])
                /\ Range(names) = TypeSuffixes(args)
                /\ Len(names) = Cardinality(TypeSuffixes(args))
                /\ \A n \in TypeSuffixes(args) :
                      args[K_ax_type(n)] = AxSchema(n)
                /\ "name" \in Range(call[c].ask_for) =>
                      SubSeq(names, 1, 3)
                          = <<"firstname", "fullname", "lastname">>

C8_Witness ==
    \E c \in Clients :
        /\ Built(c)
        /\ call[c].ask_for = <<"firstname", "name", "email">>
        /\ Listed(resp[c].args[K_ax_required])
               = <<"firstname", "fullname", "lastname", "email">>

\* C9: for every callback URI (relative, absolute on the same host,
\* absolute on another host) and every current URL, openid.return_to is an
\* absolute URL and openid.realm is the root, scheme and host and "/", of
\* the origin of openid.return_to.
C9_ReturnToAndRealm ==
    \A c \in Clients :
        Built(c) =>
            LET return_to == resp[c].args[K_return_to]
            IN  /\ return_to.scheme # ""
                /\ return_to.netloc # ""
                /\ resp[c].args[K_realm]
                       = URL(return_to.scheme, return_to.netloc, <<"", "">>,
                             EmptyDict)

C9_Witness ==
    \E c \in Clients :
        /\ Built(c)
        /\ call[c].callback_uri.netloc = "other.example"
        /\ request[c].url.netloc = "app.example"
        /\ resp[c].args[K_return_to].netloc = "other.example"
        /\ resp[c].args[K_realm].netloc = "other.example"

----------------------------------------------------------------------------
(* The response verifier: one callback is verified *)

\* the callbacks of the verifier model: signed by the provider, with or
\* without an AX alias, each attribute absent, without a value, empty or set
VerifyArgs ==
    {(K_mode :> Str("id_res")) @@ (K_sig :> ProviderSig)
     @@ ns @@ id @@ em @@ fu @@ fi @@ la @@ us @@ lg :
        ns \in Opt(<<"openid", "ns", "ext1">>, {AX_NS}),
        id \in Opt(K_claimed_id, {<< >>, CLAIMED_ID}),
        em \in AxSlot("ext1", "a1", URI_email,
                      {<< >>, <<"novalue">>, EMAIL, <<"@", "x.com">>}),
        fu \in AxSlot("ext1", "a2", URI_fullname, {<< >>, Str("Ann Lee")}),
        fi \in AxSlot("ext1", "a3", URI_firstname, {<< >>, Str("Ann")}),
        la \in AxSlot("ext1", "a4", URI_lastname, {Str("Lee")}),
        us \in AxSlot("ext1", "a5", URI_username, {Str("ann")}),
        lg \in AxSlot("ext1", "a6", URI_language, {Str("EN")})}

VerifyRequests ==
    {Request("login", AppURL(<<"", "login", "">>, q), << >>) :
        q \in VerifyArgs}

\* the callback has arrived and _before_request has run
InitVerify ==
    /\ request \in {[c \in Clients |-> IF c \in WebClients THEN req
                                       ELSE NoRequest] : req \in VerifyRequests}
    /\ session = [c \in Clients |-> EmptyDict]
    /\ g_user = [c \in Clients |-> None]
    /\ pc = [c \in Clients |-> IF c \in WebClients THEN "dispatch" ELSE "idle"]
    /\ call = [c \in Clients |-> NoCall]
    /\ posts = [c \in Clients |-> << >>]
    /\ reply = [c \in Clients |-> NoReply]
    /\ cbarg = [c \in Clients |-> Uncalled]
    /\ resp = [c \in Clients |-> NoResp]
    /\ endpoint = _OPENID_ENDPOINT
    /\ trail = [c \in Clients |-> << >>]

NextVerify ==
    \E c \in WebClients :
        \/ _login(c)
        \/ requests_post_returns(c)
        \/ requests_post_fails(c)

SpecVerify == InitVerify /\ [][NextVerify]_vars

----------------------------------------------------------------------------
(* Properties of the profile *)

ProfileFields ==
    {"first_name", "last_name", "name", "email", "locale", "username",
     "identity"}

\* C10: every field present in the profile handed to the callback has a
\* non-empty value; no field is ever set to the empty string, the name
\* derived from the local part of an email included.
C10_NoEmptyProfileField ==
    \A c \in Clients :
        cbarg[c].kind = "value" =>
            /\ DOMAIN cbarg[c].value \subseteq ProfileFields
            /\ \A f \in DOMAIN cbarg[c].value : cbarg[c].value[f] # << >>

\* the callback was verified: a profile was built
Verified(c) == pc[c] = "done" /\ cbarg[c].kind = "value"

\* the value a callback of VerifyArgs carries for the attribute it names
\* with the suffix: empty without the alias, the type key or the value key
Sent(args, suffix) ==
    IF /\ <<"openid", "ns", "ext1">> \in DOMAIN args
       /\ <<"openid", "ext1", "type", suffix>> \in DOMAIN args
       /\ <<"openid", "ext1", "value", suffix>> \in DOMAIN args
    THEN args[<<"openid", "ext1", "value", suffix>>]
    ELSE << >>

\* the text of an email before its first "@"
BeforeAt(email) ==
    IF \E i \in DOMAIN email : email[i] = "@"
    THEN CHOOSE p \in {SubSeq(email, 1, k) : k \in 0..Len(email)} :
            /\ \A i \in DOMAIN p : p[i] # "@"
            /\ email[Len(p) + 1] = "@"
    ELSE email

\* the field of a profile, "absent" when it is not set
Field(user, f) == IF f \in DOMAIN user THEN <<"set", user[f]>> ELSE <<"absent">>

\* a field that is set exactly when the value is not empty
SetIfPresent(v) == IF v # << >> THEN <<"set", v>> ELSE <<"absent">>

\* C11: profile.name is the full-name attribute if present, else the first
\* and last names that are present joined by one space, else the text of
\* the email before "@", else absent; first_name and last_name are set
\* whenever their attribute is present, however name was chosen.
C11_NamePriority ==
    \A c \in Clients :
        Verified(c) =>
            LET args == request_args(c)
                user == cbarg[c].value
                email == Sent(args, "a1")
                full == Sent(args, "a2")
                first == Sent(args, "a3")
                last == Sent(args, "a4")
            IN  /\ Field(user, "name") =
                      IF full # << >> THEN <<"set", full>>
                      ELSE IF first # << >> /\ last # << >>
                      THEN <<"set", first \o <<" ">> \o last>>
                      ELSE IF first # << >> THEN <<"set", first>>
                      ELSE IF last # << >> THEN <<"set", last>>
                      ELSE IF email # << >> THEN <<"set", BeforeAt(email)>>
                      ELSE <<"absent">>
                /\ Field(user, "first_name") = SetIfPresent(first)
                /\ Field(user, "last_name") = SetIfPresent(last)

C11_Witness ==
    \E c \in Clients :
        /\ Verified(c)
        /\ Sent(request_args(c), "a2") = << >>
        /\ Sent(request_args(c), "a1") = EMAIL
        /\ Field(cbarg[c].value, "name") = <<"set", <<"Ann", " ", "Lee">>>>
        /\ Field(cbarg[c].value, "first_name") = <<"set", Str("Ann")>>
        /\ Field(cbarg[c].value, "last_name") = <<"set", Str("Lee")>>

\* ---------------------------------------------------------------------
\* callbacks whose AX parameters the provider laid out as it chose: two
\* aliases, declared as AX, as another extension or not at all, and slots
\* with a type of interest or another type, with or without their value
SREG_NS == Str("http://openid.net/extensions/sreg/1.1")
URI_other == Str("http://axschema.org/contact/phone/default")

SlotValue(alias, suffix) == <<"v", alias, suffix>>

AnySlot(alias, suffix) ==
    {(<<"openid", alias, "value", suffix>> :> SlotValue(alias, suffix))}
    \cup UNION {AxSlot(alias, suffix, uri,
                       {<<"novalue">>, SlotValue(alias, suffix)}) :
                uri \in {URI_email, URI_username, URI_firstname, URI_other}}

AxArgs ==
    {(K_mode :> Str("id_res")) @@ (K_sig :> ProviderSig)
     @@ n1 @@ n2 @@ id @@ s1 @@ s2 @@ s3 :
        n1 \in Opt(<<"openid", "ns", "ext1">>, {AX_NS, SREG_NS}),
        n2 \in Opt(<<"openid", "ns", "ax">>, {AX_NS}),
        id \in Opt(K_claimed_id, {CLAIMED_ID}),
        s1 \in AnySlot("ext1", "a1"),
        s2 \in AnySlot("ext1", "email"),
        s3 \in AnySlot("ax", "a1")}

AxRequests ==
    {Request("login", AppURL(<<"", "login", "">>, q), << >>) : q \in AxArgs}

InitAx ==
    /\ request \in {[c \in Clients |-> IF c \in WebClients THEN req
                                       ELSE NoRequest] : req \in AxRequests}
    /\ session = [c \in Clients |-> EmptyDict]
    /\ g_user = [c \in Clients |-> None]
    /\ pc = [c \in Clients |-> IF c \in WebClients THEN "dispatch" ELSE "idle"]
    /\ call = [c \in Clients |-> NoCall]
    /\ posts = [c \in Clients |-> << >>]
    /\ reply = [c \in Clients |-> NoReply]
    /\ cbarg = [c \in Clients |-> Uncalled]
    /\ resp = [c \in Clients |-> NoResp]
    /\ endpoint = _OPENID_ENDPOINT
    /\ trail = [c \in Clients |-> << >>]

SpecAx == InitAx /\ [][NextVerify]_vars

\* the aliases a callback declares with the AX namespace URI
AxAliases(args) ==
    {name[3] : name \in {n \in DOMAIN args :
                            /\ Len(n) = 3 /\ n[1] = "openid" /\ n[2] = "ns"
                            /\ args[n] = AX_NS}}

\* the values the callback holds for a type-URI under an alias: for each
\* key openid.<alias>.type.<S> with that URI, the value of
\* openid.<alias>.value.<S>, empty when that key is missing; the empty
\* string when no type key has that URI
Candidates(args, alias, uri) ==
    LET S == {n[4] : n \in {m \in DOMAIN args :
                               /\ Len(m) = 4 /\ m[1] = "openid"
                               /\ m[2] = alias /\ m[3] = "type"
                               /\ args[m] = uri}}
    IN  IF S = {} THEN {<< >>}
        ELSE {IF <<"openid", alias, "value", x>> \in DOMAIN args
              THEN args[<<"openid", alias, "value", x>>]
              ELSE << >> : x \in S}

Extracted(user, f) == IF f \in DOMAIN user THEN user[f] ELSE << >>

\* C12: for a valid callback with AX alias A, the value extracted for a
\* type-URI is the value of openid.A.value.S for a key openid.A.type.S
\* holding that URI, whatever the suffix S; it is empty when there is no
\* such type key or the value key is missing; keys of another alias or
\* with another type-URI are never used.
C12_ExtractByTypeUri ==
    \A c \in Clients :
        (Verified(c) /\ AxAliases(request_args(c)) # {}) =>
            \E A \in AxAliases(request_args(c)) :
                /\ Extracted(cbarg[c].value, "email")
                       \in Candidates(request_args(c), A, URI_email)
                /\ Extracted(cbarg[c].value, "username")
                       \in Candidates(request_args(c), A, URI_username)
                /\ Extracted(cbarg[c].value, "first_name")
                       \in Candidates(request_args(c), A, URI_firstname)

C12_Witness ==
    \E c \in Clients :
        /\ Verified(c)
        /\ AxAliases(request_args(c)) = {"ext1"}
        /\ Get(request_args(c), <<"openid", "ext1", "type", "email">>, << >>)
               = URI_username
        /\ Get(request_args(c), <<"openid", "ext1", "type", "a1">>, << >>)
               = URI_email
        /\ Get(request_args(c), <<"openid", "ax", "type", "a1">>, << >>)
               = URI_firstname
        /\ <<"openid", "ax", "value", "a1">> \in DOMAIN request_args(c)
        /\ Extracted(cbarg[c].value, "username") = SlotValue("ext1", "email")
        /\ Extracted(cbarg[c].value, "email") = SlotValue("ext1", "a1")
        /\ "first_name" \notin DOMAIN cbarg[c].value

urlencode(query) ==
    LET order == CHOOSE o \in Orders(DOMAIN query) : TRUE
    IN  join(Str("&"),
             [i \in DOMAIN order |->
                 join(Str("."), [j \in DOMAIN order[i] |-> Str(order[i][j])])
                 \o Str("=") \o query[order[i]]])

urlunparse(url) ==
    (IF url.scheme # "" THEN <<url.scheme, ":">> ELSE << >>)
    \o (IF url.netloc # "" THEN <<"//", url.netloc>> ELSE << >>)
    \o join(Str("/"), [i \in DOMAIN url.path |->
                          IF url.path[i] = "" THEN << >> ELSE Str(url.path[i])])
    \o (IF url.query = EmptyDict THEN << >>
        ELSE Str("?") \o urlencode(url.query))

\* a request reached by following the redirect of the previous response:
\* GoogleAuth._before_request runs as for any request
follows_redirect(c, req) ==
    /\ pc[c] = "done"
    /\ resp[c].kind = "redirect"
    /\ request' = [request EXCEPT ![c] = req]
    /\ g_user' = [g_user EXCEPT ![c] =
                     IF "openid" \in DOMAIN session[c]
                     THEN Some(session[c]["openid"]) ELSE None]
    /\ pc' = [pc EXCEPT ![c] = "dispatch"]
    /\ call' = [call EXCEPT ![c] = NoCall]
    /\ posts' = [posts EXCEPT ![c] = << >>]
    /\ reply' = [reply EXCEPT ![c] = NoReply]
    /\ cbarg' = [cbarg EXCEPT ![c] = Uncalled]
    /\ resp' = [resp EXCEPT ![c] = NoResp]
    /\ trail' = [trail EXCEPT ![c] =
                    Append(@, [request |-> request[c], call |-> call[c],
                               resp |-> resp[c]])]
    /\ UNCHANGED <<session, endpoint>>

\* the redirect of required, url_for("login", next=request.url), followed
login_redirect_followed(c) ==
    /\ resp[c].location = Str("/login/")
    /\ K_next \in DOMAIN resp[c].args
    /\ follows_redirect(c,
           Request("login",
                   AppURL(<<"", "login", "">>,
                          (K_next :> urlunparse(resp[c].args[K_next]))),
                   request[c].referrer))

\* the attributes of the user at the provider
ProviderValue(uri) ==
    CASE uri = URI_email -> EMAIL
      [] uri = URI_fullname -> Str("Ann Lee")
      [] uri = URI_firstname -> Str("Ann")
      [] uri = URI_lastname -> Str("Lee")
      [] uri = URI_username -> Str("ann")
      [] uri = URI_language -> Str("EN")

\* the names of the openid.ax.type.* entries of a request
AxTypeNames(args) ==
    {k[4] : k \in {n \in DOMAIN args :
                      Len(n) = 4 /\ SubSeq(n, 1, 3) = <<"openid", "ax", "type">>}}

\* the AX answer to a request: under the alias the provider chose, a type
\* and a value key for each openid.ax.type.* entry of the request, their
\* suffixes being the names of the request behind a prefix of the provider
AxAnswer(args, alias, pre) ==
    [k \in {<<"openid", alias, t>> \o pre \o <<n>> :
               t \in {"type", "value"}, n \in AxTypeNames(args)} |->
        IF k[3] = "type" THEN args[K_ax_type(k[Len(k)])]
        ELSE ProviderValue(args[K_ax_type(k[Len(k)])])]
    @@ (<<"openid", "ns", alias>> :> AX_NS)

\* the positive assertions the provider can send back for a request
Assertions(args) ==
    {(K_mode :> Str("id_res")) @@ (K_sig :> ProviderSig) @@ id @@ ax :
        id \in Opt(K_claimed_id, {CLAIMED_ID}),
        ax \in {EmptyDict} \cup {AxAnswer(args, alias, pre) :
                                    alias \in {"ax", "ext1"},
                                    pre \in {<< >>, <<"r">>}}}

\* the provider redirects the browser to openid.return_to with its assertion
provider_redirects_back(c, assertion) ==
    /\ K_return_to \in DOMAIN resp[c].args
    /\ resp[c].args[K_return_to].netloc = request[c].url.netloc
    /\ resp[c].args[K_return_to].path = request[c].url.path
    /\ follows_redirect(c,
           Request(request[c].endpoint,
                   [resp[c].args[K_return_to] EXCEPT
                       !.query = Update(@, assertion)],
                   << >>))

\* a view of the application that logs in like _login, asking for the
\* attributes it chooses
app_login(c, ask_for) ==
    /\ pc[c] = "dispatch"
    /\ request[c].endpoint = "app"
    /\ IF Get(request_args(c), K_mode, << >>) # << >>
       THEN get_authenticated_user(c)
       ELSE authenticate_redirect(c, NoURL, ask_for)

InitRound ==
    /\ request = [c \in Clients |->
                     IF c \in WebClients
                     THEN Request("app", AppURL(<<"", "signin">>, EmptyDict),
                                  << >>)
                     ELSE NoRequest]
    /\ session = [c \in Clients |-> EmptyDict]
    /\ g_user = [c \in Clients |-> None]
    /\ pc = [c \in Clients |-> IF c \in WebClients THEN "dispatch" ELSE "idle"]
    /\ call = [c \in Clients |-> NoCall]
    /\ posts = [c \in Clients |-> << >>]
    /\ reply = [c \in Clients |-> NoReply]
    /\ cbarg = [c \in Clients |-> Uncalled]
    /\ resp = [c \in Clients |-> NoResp]
    /\ endpoint \in Endpoints
    /\ trail = [c \in Clients |-> << >>]

NextRound ==
    \E c \in WebClients :
        \/ \E ask_for \in AskFors : app_login(c, ask_for)
        \/ \E assertion \in Assertions(resp[c].args) :
              provider_redirects_back(c, assertion)
        \/ requests_post_returns(c)
        \/ requests_post_fails(c)

SpecRound == InitRound /\ [][NextRound]_vars

\* the attributes asked for by the request the callback answers
AskedFor(c) ==
    IF trail[c] # << >> /\ trail[c][Len(trail[c])].call.called
    THEN Range(trail[c][Len(trail[c])].call.ask_for)
    ELSE {}

\* C14: round trip: a request built with the attributes {email, username},
\* answered by a valid callback whose AX type and value keys answer the
\* openid.ax.type.* entries of that request, gives a profile that carries
\* these two attributes with the values supplied and no first_name,
\* last_name or locale.
C14_RoundTrip ==
    \A c \in Clients :
        (/\ Verified(c)
         /\ AskedFor(c) = {"email", "username"}
         /\ AxAliases(request_args(c)) # {}) =>
            /\ Field(cbarg[c].value, "email") = <<"set", ProviderValue(URI_email)>>
            /\ Field(cbarg[c].value, "username")
                   = <<"set", ProviderValue(URI_username)>>
            /\ DOMAIN cbarg[c].value
                   \cap {"first_name", "last_name", "locale"} = {}

C14_Witness ==
    \E c \in Clients :
        /\ Verified(c)
        /\ AskedFor(c) = {"email", "username"}
        /\ AxAliases(request_args(c)) = {"ext1"}
        /\ <<"openid", "ext1", "value", "r", "email">> \in DOMAIN request_args(c)
        /\ DOMAIN cbarg[c].value = {"email", "username", "name", "identity"}

\* ---------------------------------------------------------------------
\* Protected routes, the login they lead to, and logout

FlowRequests ==
    {Request("protected", AppURL(<<"", "secret">>, EmptyDict), << >>),
     Request("protected",
             AppURL(<<"", "admin", "">>, (<<"page">> :> Str("2"))),
             Str("/from")),
     Request("logout", AppURL(<<"", "logout", "">>, EmptyDict), << >>)}

NextFlow ==
    \E c \in WebClients :
        \/ \E req \in FlowRequests : _before_request(c, req)
        \/ login_redirect_followed(c)
        \/ \E assertion \in Assertions(resp[c].args) :
              provider_redirects_back(c, assertion)
        \/ required(c)
        \/ _login(c)
        \/ requests_post_returns(c)
        \/ requests_post_fails(c)
        \/ _logout(c)

SpecFlow == Init /\ [][NextFlow]_vars

\* the verification of the callback succeeded: requests.post returned a
\* response with status 200 whose body holds is_valid:true
ValidVerification(c) ==
    /\ pc[c] = "done"
    /\ IsCallback(c)
    /\ reply[c].kind = "response"
    /\ reply[c].status = requests_codes_ok
    /\ HasIsValidTrue(reply[c].content)

\* the callback ends a login that started with the redirect of required
FromProtected(c) ==
    /\ Len(trail[c]) = 2
    /\ trail[c][1].request.endpoint = "protected"
    /\ trail[c][2].request.endpoint = "login"

\* C15: a route wrapped by required is never executed while the session
\* has no "openid" entry: the request is redirected to the login entry
\* point with the requested URL as next; and when the login started from
\* that redirect completes with a valid verification, the user is
\* redirected to that URL.
C15_ProtectedRoundTrip ==
    \A c \in Clients :
        /\ (/\ pc[c] = "done"
            /\ request[c].endpoint = "protected"
            /\ "openid" \notin DOMAIN session[c]) =>
               resp[c] = Redirect(Str("/login/"), (K_next :> request[c].url))
        /\ (ValidVerification(c) /\ FromProtected(c)) =>
               resp[c] = Redirect(urlunparse(trail[c][1].request.url),
                                  EmptyDict)

\* ---------------------------------------------------------------------
\* Two users at once, each with a session of their own

UserId(c) == <<"https://www.google.com/accounts/o8/id?id=", c>>
UserEmail(c) == <<c, "@", "x.com">>

ConcCallbackArgs(c) ==
    {(K_mode :> Str("id_res")) @@ (K_sig :> ProviderSig)
     @@ (K_claimed_id :> UserId(c)) @@ ax :
        ax \in {EmptyDict,
                (<<"openid", "ns", "ext1">> :> AX_NS)
                @@ (<<"openid", "ext1", "type", "a1">> :> URI_email)
                @@ (<<"openid", "ext1", "value", "a1">> :> UserEmail(c))}}

ConcRequests(c) ==
    {Request("login", AppURL(<<"", "login", "">>, q), << >>) :
        q \in {EmptyDict} \cup ConcCallbackArgs(c)}
    \cup {Request("logout", AppURL(<<"", "logout", "">>, EmptyDict), << >>)}

NextConc ==
    \E c \in Clients :
        \/ \E req \in ConcRequests(c) : _before_request(c, req)
        \/ _login(c)
        \/ requests_post_returns(c)
        \/ requests_post_fails(c)
        \/ _logout(c)

SpecConc == Init /\ [][NextConc]_vars

\* what is kept for a client
StateOf(c) ==
    <<request[c], session[c], g_user[c], pc[c], call[c], posts[c], reply[c],
      cbarg[c], resp[c], trail[c]>>

\* C16: under any interleaving of the login redirects and callback
\* verifications of different users, the profile of each callback, and
\* the session it is stored in, come from that callback's own parameters
\* and its own verification response only, and handling the request of
\* one user writes nothing that belongs to another.
C16_Isolation ==
    /\ [](\A c \in Clients :
            /\ (pc[c] = "done" /\ IsCallback(c) /\ reply[c].kind = "response") =>
                  /\ cbarg[c].kind = "value"
                        <=> (/\ reply[c].status = requests_codes_ok
                             /\ HasIsValidTrue(reply[c].content))
                  /\ Verified(c) =>
                        /\ cbarg[c].value["identity"]
                              = request_args(c)[K_claimed_id]
                        /\ Extracted(cbarg[c].value, "email")
                              = Get(request_args(c),
                                    <<"openid", "ext1", "value", "a1">>, << >>)
                        /\ session[c]["openid"] = cbarg[c].value
            /\ "openid" \in DOMAIN session[c] =>
                  session[c]["openid"]["identity"] = UserId(c))
    /\ [][\A c \in Clients :
            pc'[c] # pc[c] =>
                \A d \in Clients \ {c} : StateOf(d)' = StateOf(d)]_vars

C16_Witness ==
    /\ Verified("c1")
    /\ pc["c2"] = "posting"
    /\ Extracted(session["c1"]["openid"], "email") = UserEmail("c1")
    /\ "openid" \in DOMAIN session["c2"]
    /\ Extracted(posts["c2"][1].data, <<"openid", "ext1", "value", "a1">>)
           = UserEmail("c2")

\* ---------------------------------------------------------------------
\* The session of the application

LoggedIn(c) == "openid" \in DOMAIN session[c]

\* the step in which requests.post returns the response of a callback
VerificationStep(c) ==
    /\ pc[c] = "posting"
    /\ IsCallback(c)
    /\ reply'[c].kind = "response"

\* C17: session["openid"] is present only if an earlier login callback of
\* that session received a verification response with a success status
\* and a body holding is_valid:true; no other operation adds it, and a
\* rejected callback ends in 403 with the session unchanged.
C17_SessionOnlyByValidCallback ==
    /\ [][\A c \in Clients :
            (LoggedIn(c)' /\ session'[c] # session[c]) =>
                /\ VerificationStep(c)
                /\ StatusIsSuccess(reply'[c].status)
                /\ HasIsValidTrue(reply'[c].content)]_vars
    /\ [][\A c \in Clients :
            (/\ VerificationStep(c)
             /\ ~(/\ StatusIsSuccess(reply'[c].status)
                  /\ HasIsValidTrue(reply'[c].content))) =>
                /\ resp'[c] = Abort(403)
                /\ session' = session]_vars

C17_Witness ==
    \E c \in Clients :
        /\ ValidVerification(c)
        /\ g_user[c] = None
        /\ LoggedIn(c)
        /\ session[c]["openid"] = cbarg[c].value

\* C18: every login callback whose verification is valid completes the
\* login: the profile is stored in session["openid"] and the user is
\* redirected, never answered with 403, whichever fields the profile has,
\* a profile with no AX attribute and no claimed_id included.
C18_ValidCallbackCompletes ==
    \A c \in Clients :
        ValidVerification(c) =>
            /\ resp[c].kind = "redirect"
            /\ LoggedIn(c)
            /\ session[c]["openid"] = cbarg[c].value

\* C19: after _logout, from any state, the session has no "openid" entry
\* and no error is raised; from then on every protected route redirects
\* to login and g.user is None on each request, until a login callback
\* with a valid verification sets the session again.
C19_Logout ==
    /\ [](\A c \in Clients :
            /\ (pc[c] = "done" /\ request[c].endpoint = "logout") =>
                  ~LoggedIn(c) /\ resp[c].kind = "redirect"
            /\ (pc[c] = "dispatch" /\ ~LoggedIn(c)) => g_user[c] = None
            /\ (/\ pc[c] = "done"
                /\ request[c].endpoint = "protected"
                /\ ~LoggedIn(c)) =>
                  /\ g_user[c] = None
                  /\ resp[c].kind = "redirect"
                  /\ resp[c].location = Str("/login/"))
    /\ [][\A c \in Clients :
            (~LoggedIn(c) /\ LoggedIn(c)') =>
                /\ VerificationStep(c)
                /\ reply'[c].status = requests_codes_ok
                /\ HasIsValidTrue(reply'[c].content)]_vars

C19_Witness ==
    \E c \in Clients :
        /\ pc[c] = "done"
        /\ request[c].endpoint = "logout"
        /\ g_user[c] # None
        /\ ~LoggedIn(c)

====
